---- MODULE Spec2Model ----
(***************************************************************************)
(* A model of the QEMU block driver, src/block.c: bdrv_open, bdrv_close,   *)
(* bdrv_read, bdrv_write and bdrv_commit over a raw image or a COW         *)
(* container, with the files, descriptors and mappings they act on.        *)
(*                                                                         *)
(* A file is a sequence of 512-byte blocks; the content of a block is one  *)
(* value of Data, or Zero for 512 zero bytes.  Every call is synchronous   *)
(* and runs to completion, so each call is one action; Resume is the       *)
(* caller taking the result.                                               *)
(*                                                                         *)
(* Spec is the driver under callers that pass sector_num >= 0: there every *)
(* lseek64 on an existing descriptor succeeds, no transfer depends on      *)
(* where an earlier call left a descriptor, and positions are not recorded *)
(* (pos stays empty).  SeekSpec is the driver under a caller that opens,   *)
(* reads and closes and may pass sector_num = -1; it records the position  *)
(* of every descriptor in pos.                                             *)
(***************************************************************************)
EXTENDS Integers, Sequences, FiniteSets, TLC

\* ---------------------------------------------------------------- bounds
\* Number of whole sectors of the disk image the environment provides.
MaxSectors == 2
\* Largest nb_sectors a caller passes to bdrv_read / bdrv_write.
MaxNb == 2
\* Most I/O faults (a short read, a short write) the environment injects after
\* bdrv_open in one run.
MaxFaults == 1

\* ------------------------------------------------------ program constants
SECTOR == 512
\* sizeof(struct cow_header_v2): the struct is declared in vl.h; 1056 is its
\* size with the x86-64 ABI (4 + 4 + 1024 + 4 + pad 4 + 8 + 4 + pad 4).
sizeof_cow_header == 1056
NULL == 0
MAP_FAILED == -1
\* The address mmap returns for a mapping that succeeds.
MapBase == 65536
\* A non-NULL value found in memory malloc returned and nothing initialised.
Junk == 4660
\* The value of a field of the handle that was never assigned and is never read.
Unset == -7

\* Block contents: Zero is 512 zero bytes, Meta marks a block of a COW container
\* that holds the header and the bitmap rather than sector data.
Zero == "00"
Data == {"aa", "bb"}
Meta == "meta"
\* Content of block i (1 is the first) of a disk image before the program
\* touches it.
BasePattern(i) == IF i % 2 = 1 THEN "aa" ELSE "bb"
\* Content of a sector an earlier session left in a COW container.
OldPattern == "bb"
\* No write recorded for a sector.
None == "none"

\* ------------------------------------------------------------- helpers
Max(a, b) == IF a >= b THEN a ELSE b
Min(a, b) == IF a <= b THEN a ELSE b

RECURSIVE Reverse(_)
Reverse(s) == IF s = << >> THEN << >> ELSE Reverse(Tail(s)) \o <<Head(s)>>

\* The number whose base-256 digits are d, least significant first.
RECURSIVE ValueOf(_)
ValueOf(d) == IF d = << >> THEN 0 ELSE Head(d) + 256 * ValueOf(Tail(d))

\* A word loaded from the bytes of a file on a little-endian host: the first
\* byte of the file is the least significant digit.
LoadWord(bytes) == bytes

\* htonl / bswap64 on a little-endian host (WORDS_BIGENDIAN is not defined for
\* the x86 hosts this tree builds on): the digits of the word reversed.
htonl_id(w) == w
htonl(w) == Reverse(w)
bswap64(w) == Reverse(w)

\* The bytes of v as an n-byte field in network byte order.
RECURSIVE NetBytes(_, _)
NetBytes(v, n) == IF n = 0 THEN << >> ELSE NetBytes(v \div 256, n - 1) \o <<v % 256>>

\* ------------------------------------------------------------- state
VARIABLES
    env,      \* what is on the disk when bdrv_open runs (never changes)
    data,     \* the blocks of each file: "img", "base", "tmp"
    mem,      \* the bits of the mapped dirty bitmap, bit 0 first
    bs,       \* the BlockDriverState
    fdt,      \* every descriptor acquired: file, mode, open?, close calls
    map,      \* the bitmap mapping: kind, mapped?, munmap calls
    hist,     \* per sector, the content of the latest successful write
    faults,   \* the number of I/O faults injected so far
    last,     \* the call that has just returned: operation, arguments, result
    pos       \* SeekSpec: the file position of every descriptor, in bytes

vars == <<env, data, mem, bs, fdt, map, hist, faults, last, pos>>

\* ------------------------------------------------------ the environment
\* The image file named by filename, and the backing file its header names.
\*   exists, writable : whether open(O_RDWR) / open(O_RDONLY) can succeed
\*   nbytes           : the length of the image file
\*   magic            : "OOOM" with the supported version, or anything else
\*   backing_file     : the header's backing_file, "" when it names none
\*   hdr_mtime        : the header's mtime field, 4 bytes as stored
\*   hdr_size         : the header's size field, 8 bytes as stored
\*   base_exists      : whether stat/open of the backing file can succeed
\*   st_mtime         : the modification time stat reports for it
\*   dirty            : the sectors whose bits are set in a COW container
ImageBytes == MaxSectors * SECTOR + 100
ShortBytes == 100
MtimeA == 5
MtimeB == 5 * 16777216

\* The first block of sector data in a COW container of this model's size.
CowDataBlock ==
    ((((MaxSectors + 7) \div 8) + sizeof_cow_header + 511) \div SECTOR)

RawEnvs ==
    { [exists |-> e, writable |-> w, nbytes |-> n, magic |-> "data",
       backing_file |-> "", hdr_mtime |-> <<0, 0, 0, 0>>,
       hdr_size |-> NetBytes(0, 8), base_exists |-> FALSE, st_mtime |-> 0,
       dirty |-> {}] :
      e \in {TRUE}, w \in BOOLEAN, n \in {ImageBytes, ShortBytes} }
    \cup
    { [exists |-> FALSE, writable |-> FALSE, nbytes |-> 0, magic |-> "data",
       backing_file |-> "", hdr_mtime |-> <<0, 0, 0, 0>>,
       hdr_size |-> NetBytes(0, 8), base_exists |-> FALSE, st_mtime |-> 0,
       dirty |-> {}] }

CowEnvs ==
    { [exists |-> TRUE, writable |-> w, nbytes |-> CowDataBlock * SECTOR, magic |-> "OOOM",
       backing_file |-> "", hdr_mtime |-> <<0, 0, 0, 0>>,
       hdr_size |-> NetBytes(MaxSectors * SECTOR, 8),
       base_exists |-> FALSE, st_mtime |-> 0, dirty |-> d] :
      w \in BOOLEAN, d \in {{}, {1}} }
    \cup
    { [exists |-> TRUE, writable |-> TRUE, nbytes |-> CowDataBlock * SECTOR, magic |-> "OOOM",
       backing_file |-> "base", hdr_mtime |-> NetBytes(t, 4),
       hdr_size |-> NetBytes(MaxSectors * SECTOR, 8),
       base_exists |-> x, st_mtime |-> s, dirty |-> d] :
      t \in {MtimeA, MtimeB}, x \in BOOLEAN, s \in {MtimeA, MtimeB},
      d \in {{}, {1}} }

Envs == RawEnvs \cup CowEnvs

\* The size in bits of the bitmap bdrv_open maps for total_sectors sectors.
BitmapBits(total_sectors) == 8 * ((total_sectors + 7) \div 8)
NoBits == [i \in {} |-> FALSE]

\* The blocks of the files before bdrv_open.
InitData(e) ==
    [f \in {"img", "base", "tmp"} |->
        CASE f = "img" /\ e.magic = "OOOM" ->
                 [i \in 1..(CowDataBlock + (IF e.dirty = {} THEN 0 ELSE 2)) |->
                     IF i <= CowDataBlock THEN Meta
                     ELSE IF (i - CowDataBlock - 1) \in e.dirty THEN OldPattern
                     ELSE Zero]
          [] f = "img" /\ e.magic # "OOOM" ->
                 [i \in 1..(e.nbytes \div SECTOR) |-> BasePattern(i)]
          [] f = "base" ->
                 IF e.base_exists THEN [i \in 1..MaxSectors |-> BasePattern(i)]
                 ELSE << >>
          [] OTHER -> << >>]

NoHandle ==
    [alloc |-> "none", fd |-> -1, total_sectors |-> Unset, read_only |-> 0,
     cow_bitmap |-> NULL, cow_bitmap_addr |-> NULL, cow_bitmap_size |-> Unset,
     cow_fd |-> -1, cow_sectors_offset |-> Unset]
NoMap == [kind |-> "none", mapped |-> FALSE, unmaps |-> 0, stray |-> 0]
\* Sector numbers a call of this model can name.
Sectors == 0..(MaxSectors + MaxNb - 1)
NoHist == [ok |-> TRUE, w |-> [s \in Sectors |-> None]]
NoCall == [op |-> "none", a |-> 0, n |-> 0, buf |-> << >>, ret |-> 0]

Init ==
    /\ env \in Envs
    /\ data = InitData(env)
    /\ mem = NoBits
    /\ bs = NoHandle
    /\ fdt = << >>
    /\ map = NoMap
    /\ hist = NoHist
    /\ faults = 0
    /\ last = NoCall
    /\ pos = << >>

\* ------------------------------------------------------------ descriptors
\* open() / mkstemp(): the new descriptor is the next free number.
NewFd(f) == Len(f) + 3
OpenFd(f, file, mode) ==
    Append(f, [file |-> file, mode |-> mode, open |-> TRUE, closes |-> 0])
FdOf(f, fd) == f[fd - 2]

\* close(fd)
close_fd(f, fd) ==
    [f EXCEPT ![fd - 2] = [@ EXCEPT !.open = FALSE, !.closes = @ + 1]]

\* munmap(addr, size): releases the mapping when addr is its address, and is a
\* stray call (on MAP_FAILED or on a value nobody assigned) otherwise.
munmap(m, addr) ==
    IF addr = MapBase /\ m.kind # "none"
    THEN [m EXCEPT !.mapped = FALSE, !.unmaps = @ + 1]
    ELSE [m EXCEPT !.stray = @ + 1]

\* ------------------------------------------------------------- bdrv_close
close_leaky(b, f) == IF b.fd >= 0 THEN close_fd(f, b.fd) ELSE f

\* The descriptors after bdrv_close: cow_fd and fd closed when they are >= 0.
close_descriptors(b, f) ==
    LET f1 == IF b.cow_fd >= 0 THEN close_fd(f, b.cow_fd) ELSE f
    IN  IF b.fd >= 0 THEN close_fd(f1, b.fd) ELSE f1

\* bdrv_close(bs): [bs, fdt, map] afterwards.
bdrv_close(b, f, m) ==
    [bs  |-> [b EXCEPT !.alloc = "freed"],
     fdt |-> close_descriptors(b, f),
     map |-> IF b.cow_bitmap_addr # NULL THEN munmap(m, b.cow_bitmap_addr) ELSE m]

\* -------------------------------------------------------------- bdrv_open
\* The comparison of the backing file's st_mtime with the header's mtime.
mtime_differs_raw(st_mtime, hdr_mtime) ==
    st_mtime # ValueOf(htonl_id(LoadWord(hdr_mtime)))
mtime_differs(st_mtime, hdr_mtime) ==
    st_mtime # ValueOf(htonl(LoadWord(hdr_mtime)))

mmap_shared_any(f, fd, fault) == fault = "mmap"
\* mmap(PROT_READ | PROT_WRITE, MAP_SHARED, fd) fails with EACCES unless fd was
\* opened O_RDWR; any mmap can fail for want of memory (fault = "mmap").
mmap_shared_fails(f, fd, fault) == fault = "mmap" \/ FdOf(f, fd).mode # "rw"

OpenResult(ok, b, f, m, bits) ==
    [ok |-> ok, bs |-> b, fdt |-> f, map |-> m, mem |-> bits]

\* Lines 119-137: the temporary COW file of snapshot mode.
open_snapshot(b, f, snapshot, fault) ==
    IF snapshot = 0 THEN OpenResult(TRUE, b, f, NoMap, NoBits)
    ELSE IF fault = "mkstemp" THEN OpenResult(FALSE, b, f, NoMap, NoBits)
    ELSE
      LET f1 == OpenFd(f, "tmp", "rw")
          b1 == [b EXCEPT !.cow_fd = NewFd(f),
                          !.cow_bitmap_size = (b.total_sectors + 7) \div 8]
      IN  IF fault = "mmap"
          THEN OpenResult(FALSE, [b1 EXCEPT !.cow_bitmap_addr = MAP_FAILED],
                          f1, NoMap, NoBits)
          ELSE OpenResult(TRUE,
                          [b1 EXCEPT !.cow_bitmap_addr = MapBase,
                                     !.cow_bitmap = MapBase,
                                     !.cow_sectors_offset = 0],
                          f1,
                          [NoMap EXCEPT !.kind = "anon", !.mapped = TRUE],
                          [i \in 0..(BitmapBits(b.total_sectors) - 1) |-> FALSE])

\* Lines 101-111: the bitmap of a COW container, mapped from the file.
open_cow_map(e, b, f, fault) ==
    LET b1 == [b EXCEPT !.cow_bitmap_size =
                          ((b.total_sectors + 7) \div 8) + sizeof_cow_header]
    IN  IF mmap_shared_fails(f, b.cow_fd, fault)
        THEN OpenResult(FALSE, [b1 EXCEPT !.cow_bitmap_addr = MAP_FAILED],
                        f, NoMap, NoBits)
        ELSE OpenResult(TRUE,
                        [b1 EXCEPT !.cow_bitmap_addr = MapBase,
                                   !.cow_bitmap = MapBase + sizeof_cow_header,
                                   !.cow_sectors_offset =
                                       ((b1.cow_bitmap_size + 511) \div 512) * 512],
                        f,
                        [NoMap EXCEPT !.kind = "shared", !.mapped = TRUE],
                        [i \in 0..(BitmapBits(b.total_sectors) - 1) |->
                            i \in e.dirty])

\* Lines 78-100: a COW container; the descriptor becomes cow_fd, and the
\* backing file the header names is checked and opened read-only.
open_cow(e, b, f, fault) ==
    LET size == ValueOf(bswap64(LoadWord(e.hdr_size)))
        b1 == [b EXCEPT !.total_sectors = size \div 512,
                        !.cow_fd = b.fd, !.fd = -1]
    IN  IF e.backing_file # ""
        THEN IF ~e.base_exists
             THEN OpenResult(FALSE, b1, f, NoMap, NoBits)
             ELSE IF mtime_differs(e.st_mtime, e.hdr_mtime)
             THEN OpenResult(FALSE, b1, f, NoMap, NoBits)
             ELSE IF fault = "open_backing"
             THEN OpenResult(FALSE, b1, f, NoMap, NoBits)
             ELSE open_cow_map(e, [b1 EXCEPT !.fd = NewFd(f)],
                               OpenFd(f, e.backing_file, "ro"), fault)
        ELSE open_cow_map(e, b1, f, fault)

\* Lines 48-139, before the fail label: [ok, bs, fdt, map, mem].
open_body(e, snapshot, fault, junk) ==
    LET b0 == [alloc |-> "live", fd |-> -1, total_sectors |-> Unset,
               read_only |-> 0, cow_bitmap |-> NULL, cow_bitmap_addr |-> junk,
               cow_bitmap_size |-> Unset, cow_fd |-> -1,
               cow_sectors_offset |-> Unset]
    IN  IF ~e.exists THEN OpenResult(FALSE, b0, << >>, NoMap, NoBits)
        ELSE
          LET mode == IF e.writable THEN "rw" ELSE "ro"
              f1 == OpenFd(<< >>, "img", mode)
              b1 == [b0 EXCEPT !.fd = NewFd(<< >>),
                               !.read_only =
                                   IF ~e.writable /\ snapshot = 0 THEN 1 ELSE 0]
          IN  IF e.nbytes < sizeof_cow_header
              THEN OpenResult(FALSE, b1, f1, NoMap, NoBits)
              ELSE IF e.magic = "OOOM"
              THEN open_cow(e, b1, f1, fault)
              ELSE open_snapshot([b1 EXCEPT !.total_sectors = e.nbytes \div 512],
                                 f1, snapshot, fault)

\* bdrv_open(filename, snapshot): the handle, or NULL after bdrv_close(bs).
bdrv_open(e, snapshot, fault, junk) ==
    IF fault = "malloc"
    THEN OpenResult(FALSE, NoHandle, << >>, NoMap, NoBits)
    ELSE LET r == open_body(e, snapshot, fault, junk)
         IN  IF r.ok THEN r
             ELSE LET c == bdrv_close(r.bs, r.fdt, r.map)
                  IN  OpenResult(FALSE, c.bs, c.fdt, c.map, NoBits)

OpenFaults == {"none", "malloc", "open_backing", "mmap", "mkstemp"}

Open ==
    /\ bs.alloc = "none"
    /\ last.op = "none"
    /\ \E snapshot \in {0, 1}, fault \in OpenFaults, junk \in {NULL, Junk} :
         LET r == bdrv_open(env, snapshot, fault, junk)
         IN  /\ bs' = r.bs
             /\ fdt' = r.fdt
             /\ map' = r.map
             /\ mem' = r.mem
             /\ last' = [op |-> "open", a |-> snapshot, n |-> 0, buf |-> << >>,
                         ret |-> IF r.ok THEN 1 ELSE NULL]
             /\ UNCHANGED <<env, data, hist, faults, pos>>

Close ==
    /\ bs.alloc = "live"
    /\ last.op = "none"
    /\ LET c == bdrv_close(bs, fdt, map)
       IN  /\ bs' = c.bs
           /\ fdt' = c.fdt
           /\ map' = c.map
    /\ data' = [data EXCEPT !["tmp"] = << >>]
    /\ last' = [op |-> "close", a |-> 0, n |-> 0, buf |-> << >>, ret |-> 0]
    /\ UNCHANGED <<env, mem, hist, faults, pos>>

\* ------------------------------------------------------------ file I/O
\* The block of a file that byte offset off starts.
BlockAt(off) == (off \div SECTOR) + 1

\* read(fd, buf, n * 512) at byte offset off: the n blocks, or fewer at the
\* end of the file.
sys_read(blocks, off, n) ==
    [i \in 1..Max(0, Min(n, Len(blocks) - BlockAt(off) + 1)) |->
        blocks[BlockAt(off) + i - 1]]

\* The blocks of a file after k blocks of buf are written at byte offset off;
\* a gap the write leaves before it reads as zero bytes.
put_blocks(blocks, off, buf, k) ==
    [i \in 1..Max(Len(blocks), IF k = 0 THEN 0 ELSE BlockAt(off) + k - 1) |->
        IF i >= BlockAt(off) /\ i < BlockAt(off) + k THEN buf[i - BlockAt(off) + 1]
        ELSE IF i <= Len(blocks) THEN blocks[i]
        ELSE Zero]

sys_write_shifted(f, d, fd, off, buf, k) ==
    IF FdOf(f, fd).mode # "rw" THEN [n |-> -1, data |-> d]
    ELSE [n |-> k,
          data |-> [d EXCEPT ![FdOf(f, fd).file] =
                                 put_blocks(@, off + SECTOR, buf, k)]]

\* write(fd, buf, nb * 512) at byte offset off, of which the system transfers
\* k blocks: [n, data], n = -1 (EBADF) for a descriptor opened O_RDONLY.
sys_write(f, d, fd, off, buf, k) ==
    IF FdOf(f, fd).mode # "rw" THEN [n |-> -1, data |-> d]
    ELSE [n |-> k,
          data |-> [d EXCEPT ![FdOf(f, fd).file] = put_blocks(@, off, buf, k)]]

\* lseek64(fd, offset, SEEK_SET) returns -1 for no descriptor or a negative offset.
lseek64_fails(fd, offset) == fd < 0 \/ offset < 0

\* The positions p after lseek64(fd, offset, SEEK_SET): a call that fails moves
\* nothing.
lseek64(p, fd, offset) ==
    IF lseek64_fails(fd, offset) THEN p ELSE [p EXCEPT ![fd - 2] = offset]

\* The positions p after a read or write moved fd on by nblocks blocks.
advance(p, fd, nblocks) == [p EXCEPT ![fd - 2] = @ + nblocks * SECTOR]

\* ------------------------------------------------------------ the bitmap
set_bit(bits, bitnum) == [bits EXCEPT ![bitnum] = TRUE]

is_bit_set(bits, bitnum) == bits[bitnum]

scan_same_all(bits, sector_num, nb_sectors, changed, num_same) == nb_sectors

\* The for loop of is_changed: the first num_same >= from at which the loop
\* stops.
RECURSIVE scan_same(_, _, _, _, _)
scan_same(bits, sector_num, nb_sectors, changed, num_same) ==
    IF num_same < nb_sectors
       /\ is_bit_set(bits, sector_num + num_same) = changed
    THEN scan_same(bits, sector_num, nb_sectors, changed, num_same + 1)
    ELSE num_same

\* is_changed(bitmap, sector_num, nb_sectors, &num_same): [changed, num_same].
is_changed(bitmap, bits, sector_num, nb_sectors) ==
    IF bitmap = NULL \/ nb_sectors = 0
    THEN [changed |-> FALSE, num_same |-> nb_sectors]
    ELSE LET changed == is_bit_set(bits, sector_num)
         IN  [changed |-> changed,
              num_same |-> scan_same(bits, sector_num, nb_sectors, changed, 1)]

\* Lines 182-185: the bits is_changed tests when it returns num_same.
bits_tested(bitmap, sector_num, nb_sectors, num_same) ==
    IF bitmap = NULL \/ nb_sectors = 0 THEN {}
    ELSE sector_num..(sector_num + Min(num_same, nb_sectors - 1))

\* Lines 294-297: the bits a bdrv_write that succeeds sets.
bits_set(b, sector_num, nb_sectors) ==
    IF b.cow_bitmap # NULL THEN sector_num..(sector_num + nb_sectors - 1) ELSE {}

\* -------------------------------------------------------------- bdrv_read
read_source_fd(b, changed) == [fd |-> b.fd, offset |-> 0]
read_source_cow(b, changed) == [fd |-> b.cow_fd, offset |-> b.cow_sectors_offset]

\* Lines 240-246: the descriptor and base offset a run is read from.
read_source(b, changed) ==
    IF changed THEN [fd |-> b.cow_fd, offset |-> b.cow_sectors_offset]
    ELSE [fd |-> b.fd, offset |-> 0]

read_advance_one(sector_num, n) == sector_num + 1
\* Line 260: the sector cursor after a run of n sectors.
read_advance(sector_num, n) == sector_num + n

\* bdrv_read(bs, sector_num, buf, nb_sectors) with the descriptors at the
\* positions p: [ret, buf, pos, runs, sector_num], the last two being the n of
\* every iteration and the sector cursor at the return.  fault = j > 0 makes
\* the j-th read() of the call return short; on failure buf is not used.
RECURSIVE bdrv_read_pos(_, _, _, _, _, _, _, _)
bdrv_read_pos(b, d, bits, f, p, sector_num, nb_sectors, fault) ==
    IF ~(nb_sectors > 0)
    THEN [ret |-> 0, buf |-> << >>, pos |-> p, runs |-> << >>,
          sector_num |-> sector_num]
    ELSE
      LET c == is_changed(b.cow_bitmap, bits, sector_num, nb_sectors)
          src == read_source(b, c.changed)
          n == c.num_same
      IN  IF src.fd < 0
          THEN LET rest == bdrv_read_pos(b, d, bits, f, p,
                                         read_advance(sector_num, n),
                                         nb_sectors - n, fault)
               IN  [rest EXCEPT !.buf = [i \in 1..n |-> Zero] \o @,
                                !.runs = <<n>> \o @]
          ELSE
            LET offset == src.offset + sector_num * 512
                p1 == lseek64(p, src.fd, offset)
                from == p1[src.fd - 2]
                got == IF fault = 1 THEN << >>
                       ELSE sys_read(d[FdOf(f, src.fd).file], from, n)
                p2 == advance(p1, src.fd, Len(got))
            IN  IF Len(got) # n
                THEN [ret |-> -1, buf |-> << >>, pos |-> p2, runs |-> <<n>>,
                      sector_num |-> sector_num]
                ELSE LET rest == bdrv_read_pos(b, d, bits, f, p2,
                                               read_advance(sector_num, n),
                                               nb_sectors - n,
                                               IF fault > 0 THEN fault - 1 ELSE 0)
                     IN  [rest EXCEPT !.buf = got \o @, !.runs = <<n>> \o @]

\* Positions for a call whose seeks all succeed: it reads none of them.
AnyPos(f) == [i \in DOMAIN f |-> 0]

\* bdrv_read(bs, sector_num, buf, nb_sectors) for sector_num >= 0: [ret, buf].
bdrv_read(b, d, bits, f, sector_num, nb_sectors, fault) ==
    LET r == bdrv_read_pos(b, d, bits, f, AnyPos(f), sector_num, nb_sectors,
                           fault)
    IN  [ret |-> r.ret, buf |-> r.buf]

\* ------------------------------------------------------------- bdrv_write
\* Lines 273-274: a read-only device refuses the write.
write_refused(b) == b.read_only # 0

write_refusal_ok(d, bits) == [ret |-> 0, data |-> d, mem |-> bits]
\* Line 274: what the refused write returns and leaves behind.
write_refusal(d, bits) == [ret |-> -1, data |-> d, mem |-> bits]

write_dest_backing(b) == [fd |-> b.fd, offset |-> 0]
\* Lines 276-282: the descriptor and base offset a write goes to.
write_dest(b) ==
    IF b.cow_bitmap # NULL THEN [fd |-> b.cow_fd, offset |-> b.cow_sectors_offset]
    ELSE [fd |-> b.fd, offset |-> 0]

mark_written_short(bits, sector_num, nb_sectors) ==
    [i \in DOMAIN bits |->
        bits[i] \/ (i >= sector_num /\ i < sector_num + nb_sectors - 1)]

\* Lines 295-296: set_bit for every sector of the range.
RECURSIVE mark_written(_, _, _)
mark_written(bits, sector_num, nb_sectors) ==
    IF nb_sectors <= 0 THEN bits
    ELSE set_bit(mark_written(bits, sector_num, nb_sectors - 1),
                 sector_num + nb_sectors - 1)

\* bdrv_write(bs, sector_num, buf, nb_sectors), the system transferring k
\* blocks: [ret, data, mem].
bdrv_write(b, d, bits, f, sector_num, buf, nb_sectors, k) ==
    IF write_refused(b) THEN write_refusal(d, bits)
    ELSE
      LET dst == write_dest(b)
          offset == dst.offset + sector_num * 512
      IN  IF lseek64_fails(dst.fd, offset)
          THEN [ret |-> -1, data |-> d, mem |-> bits]
          ELSE
            LET w == sys_write(f, d, dst.fd, offset, buf, k)
            IN  IF w.n # nb_sectors
                THEN [ret |-> -1, data |-> w.data, mem |-> bits]
                ELSE [ret |-> 0, data |-> w.data,
                      mem |-> IF b.cow_bitmap # NULL
                              THEN mark_written(bits, sector_num, nb_sectors)
                              ELSE bits]

\* ------------------------------------------------------------ bdrv_commit
commit_hide_nothing(b) == b
\* Line 218: bdrv_write is made to write to the real file for a moment.
commit_hide(b) == [b EXCEPT !.cow_bitmap = NULL]

commit_restore_forgotten(b, cow_bitmap) == b
commit_restore_addr(b, cow_bitmap) == [b EXCEPT !.cow_bitmap = b.cow_bitmap_addr]
\* Lines 222 and 225: the bitmap pointer is put back.
commit_restore(b, cow_bitmap) == [b EXCEPT !.cow_bitmap = cow_bitmap]

commit_check_ro_first(b) ==
    IF b.read_only # 0 THEN -1
    ELSE IF b.cow_bitmap = NULL THEN 0
    ELSE 1
commit_check_strict(b) ==
    IF b.cow_bitmap = NULL THEN -1
    ELSE IF b.read_only # 0 THEN -1
    ELSE 1
\* Lines 197-205: 0 with no bitmap, -1 for a read-only device, 1 to go on.
commit_check(b) ==
    IF b.cow_bitmap = NULL THEN 0
    ELSE IF b.read_only # 0 THEN -1
    ELSE 1

\* Lines 208-227 from sector i on: [ret, data, bs, mem].  The environment makes the
\* read or the write of sector fail.at fail (fail.what).
RECURSIVE commit_loop(_, _, _, _, _, _, _)
commit_loop(b, d, bits, f, cow_bitmap, i, fail) ==
    IF ~(i < b.total_sectors) THEN [ret |-> 0, data |-> d, bs |-> b, mem |-> bits]
    ELSE IF ~is_bit_set(bits, i)
    THEN commit_loop(b, d, bits, f, cow_bitmap, i + 1, fail)
    ELSE
      LET r == bdrv_read(b, d, bits, f, i, 1,
                         IF fail.at = i /\ fail.what = "read" THEN 1 ELSE 0)
      IN  IF r.ret # 0 THEN [ret |-> -1, data |-> d, bs |-> b, mem |-> bits]
          ELSE
            LET hidden == commit_hide(b)
                w == bdrv_write(hidden, d, bits, f, i, r.buf, 1,
                                IF fail.at = i /\ fail.what = "write" THEN 0 ELSE 1)
                back == commit_restore(hidden, cow_bitmap)
            IN  IF w.ret # 0
                THEN [ret |-> -1, data |-> w.data, bs |-> back, mem |-> w.mem]
                ELSE commit_loop(back, w.data, w.mem, f, cow_bitmap, i + 1, fail)

\* bdrv_commit(bs): [ret, data, bs, mem].
bdrv_commit(b, d, bits, f, fail) ==
    LET c == commit_check(b)
    IN  IF c # 1 THEN [ret |-> c, data |-> d, bs |-> b, mem |-> bits]
        ELSE commit_loop(b, d, bits, f, b.cow_bitmap, 0, fail)

\* ---------------------------------------------------------------- calls
Buffers(n) == [1..n -> Data]

\* The record of writes through an overlay: a successful write is noted per
\* sector; a failed write that transferred something ends the record.
note_write(h, b, sector_num, buf, nb_sectors, ret, k) ==
    IF b.cow_bitmap = NULL \/ ~h.ok THEN h
    ELSE IF ret = 0
    THEN [h EXCEPT !.w = [s \in Sectors |->
                            IF s >= sector_num /\ s < sector_num + nb_sectors
                            THEN buf[s - sector_num + 1] ELSE @[s]]]
    ELSE IF k > 0 THEN [ok |-> FALSE, w |-> NoHist.w]
    ELSE h

\* The arguments of a call: a range that ends at most one sector past the
\* end of the device.
Ranges ==
    {r \in (0..MaxSectors) \X (0..MaxNb) : r[1] + r[2] <= bs.total_sectors + 1}

\* The faults the environment may still inject: none once MaxFaults were.
MayFail(choices, none) == IF faults < MaxFaults THEN choices ELSE {none}

Read ==
    /\ bs.alloc = "live"
    /\ last.op = "none"
    /\ \E r \in Ranges : \E fault \in MayFail(0..r[2], 0) :
         LET res == bdrv_read(bs, data, mem, fdt, r[1], r[2], fault)
         IN  /\ last' = [op |-> "read", a |-> r[1], n |-> r[2],
                         buf |-> res.buf, ret |-> res.ret]
             /\ faults' = IF fault # 0 THEN faults + 1 ELSE faults
    /\ UNCHANGED <<env, data, mem, bs, fdt, map, hist, pos>>

Write ==
    /\ bs.alloc = "live"
    /\ last.op = "none"
    /\ \E r \in Ranges : \E buf \in Buffers(r[2]), k \in MayFail(0..r[2], r[2]) :
         LET res == bdrv_write(bs, data, mem, fdt, r[1], buf, r[2], k)
         IN  /\ data' = res.data
             /\ mem' = res.mem
             /\ hist' = note_write(hist, bs, r[1], buf, r[2], res.ret,
                                   IF res.data = data THEN 0 ELSE k)
             /\ last' = [op |-> "write", a |-> r[1], n |-> r[2],
                         buf |-> << >>, ret |-> res.ret]
             /\ faults' = IF k # r[2] THEN faults + 1 ELSE faults
    /\ UNCHANGED <<env, bs, fdt, map, pos>>

NoFail == [at |-> -1, what |-> "none"]
CommitFails ==
    {NoFail}
    \cup {[at |-> i, what |-> w] : i \in 0..(MaxSectors - 1), w \in {"read", "write"}}

Commit ==
    /\ bs.alloc = "live"
    /\ last.op = "none"
    /\ \E fail \in MayFail(CommitFails, NoFail) :
         LET res == bdrv_commit(bs, data, mem, fdt, fail)
         IN  /\ data' = res.data
             /\ bs' = res.bs
             /\ mem' = res.mem
             /\ last' = [op |-> "commit", a |-> 0, n |-> 0, buf |-> << >>,
                         ret |-> res.ret]
             /\ faults' = IF fail # NoFail THEN faults + 1 ELSE faults
    /\ UNCHANGED <<env, fdt, map, hist, pos>>

\* The caller takes the result of the call and goes on.
Resume ==
    /\ last.op # "none"
    /\ last' = NoCall
    /\ UNCHANGED <<env, data, mem, bs, fdt, map, hist, faults, pos>>

Next == Open \/ Close \/ Read \/ Write \/ Commit \/ Resume

Spec == Init /\ [][Next]_vars

\* ------------------------------------------------------------- properties
Overlay == bs.cow_bitmap # NULL
BackingName == FdOf(fdt, bs.fd).file
OverlayName == FdOf(fdt, bs.cow_fd).file
\* The content of sector s in the file behind bs.fd.
BackingSector(d, s) == d[BackingName][s + 1]
\* What bdrv_read returns for sector s when no read fails in the environment.
SectorView(s) == bdrv_read(bs, data, mem, fdt, s, 1, 0)

\* C1: with an overlay, after successful writes only, a successful bdrv_read
\* returns for every sector some write covered the bytes of the latest write
\* that covered it.
C1_RoundTrip ==
    (last.op = "read" /\ last.ret = 0 /\ Overlay /\ hist.ok) =>
        \A i \in 1..last.n :
            hist.w[last.a + i - 1] # None =>
                last.buf[i] = hist.w[last.a + i - 1]

C1_Witness ==
    /\ last.op = "read" /\ last.ret = 0 /\ Overlay /\ hist.ok
    /\ last.a = 0 /\ last.n = 2
    /\ hist.w[0] = "bb" /\ hist.w[1] = None
    /\ bs.fd >= 0
    /\ last.buf = <<"bb", "bb">>

\* C2: a bdrv_write on a handle with an overlay, whatever it returns, leaves
\* the backing file as it was; only the file behind cow_fd can change.
C2_Isolation ==
    [][(last'.op = "write" /\ Overlay) =>
          /\ bs.fd >= 0 => data'[BackingName] = data[BackingName]
          /\ \A f \in DOMAIN data : f # OverlayName => data'[f] = data[f]]_vars

C2_Witness ==
    /\ last.op = "write" /\ last.ret = 0 /\ last.n = 2 /\ Overlay
    /\ bs.fd >= 0
    /\ data[OverlayName] # << >>

\* C3: a successful bdrv_write of [a, a+n) on a handle with an overlay sets
\* every bit of [a, a+n) and leaves every other bit as it was.
C3_Bitmap ==
    [][(last'.op = "write" /\ last'.ret = 0 /\ Overlay) =>
          \A i \in DOMAIN mem :
              mem'[i] = (mem[i] \/ (i >= last'.a /\ i < last'.a + last'.n))]_vars

C3_Witness ==
    /\ last.op = "write" /\ last.ret = 0 /\ last.n = 2 /\ Overlay
    /\ last.a = 1 /\ mem[1] /\ mem[2]
    /\ mem[0] /\ ~mem[3]
    /\ hist.w[1] # None /\ hist.w[0] # None

\* C4: on a read-only handle every bdrv_write returns -1 and changes no file
\* and no bit.
C4_ReadOnly ==
    [][(last'.op = "write" /\ bs.read_only # 0) =>
          last'.ret = -1 /\ data' = data /\ mem' = mem]_vars

C4_Witness ==
    last.op = "write" /\ bs.read_only # 0 /\ last.n > 0 /\ last.ret = -1

\* C5: when bdrv_commit returns 0 on a handle with an overlay and a backing
\* descriptor, every sector of the backing file holds what bdrv_read returned
\* for that sector just before the commit.
C5_Convergence ==
    [][(last'.op = "commit" /\ last'.ret = 0 /\ Overlay /\ bs.fd >= 0) =>
          \A s \in 0..(bs.total_sectors - 1) :
              /\ SectorView(s).ret = 0
              /\ BackingSector(data', s) = SectorView(s).buf[1]]_vars

C5_Witness ==
    /\ last.op = "commit" /\ last.ret = 0 /\ Overlay /\ bs.fd >= 0
    /\ \E s \in 0..(bs.total_sectors - 1) :
          mem[s] /\ BackingSector(data, s) # BasePattern(s + 1)
    /\ \E s \in 0..(bs.total_sectors - 1) : ~mem[s]

\* C6 as claimed: after a bdrv_commit that returns 0 on a handle with an
\* overlay the bitmap is absent, reads are served from the backing descriptor
\* and another commit takes the no-overlay path.
C6_Detached ==
    [][(last'.op = "commit" /\ last'.ret = 0 /\ Overlay) =>
          /\ bs'.cow_bitmap = NULL
          /\ \A s \in 0..(bs.total_sectors - 1) :
                ~is_changed(bs'.cow_bitmap, mem', s, 1).changed
          /\ commit_check(bs') = 0]_vars

\* C6 amended: a bdrv_commit that returns 0 on a handle with an overlay
\* leaves the overlay attached: the handle and every bit are as before, a
\* dirty sector is still read from the overlay, and another commit takes the
\* commit path again.
C6_StaysAttached ==
    [][(last'.op = "commit" /\ last'.ret = 0 /\ Overlay) =>
          /\ bs' = bs
          /\ mem' = mem
          /\ \A s \in 0..(bs.total_sectors - 1) :
                is_changed(bs'.cow_bitmap, mem', s, 1).changed = mem[s]
          /\ commit_check(bs') = 1]_vars

C6_Witness ==
    /\ last.op = "commit" /\ last.ret = 0 /\ Overlay
    /\ \E s \in 0..(bs.total_sectors - 1) : mem[s]
    /\ map.kind = "anon"

\* C7 as claimed: bdrv_commit on a read-only handle returns -1, writes
\* nothing and leaves the bitmap as it was.
C7_ReadOnlyFails ==
    [][(last'.op = "commit" /\ bs.read_only # 0) =>
          last'.ret = -1 /\ data' = data /\ mem' = mem]_vars

\* C7 amended: bdrv_commit on a read-only handle writes nothing and leaves the
\* handle and the bitmap as they were; it returns 0 when the handle has no
\* bitmap and -1 when it has one.
C7_ReadOnlyNoWrite ==
    [][(last'.op = "commit" /\ bs.read_only # 0) =>
          /\ last'.ret = (IF bs.cow_bitmap = NULL THEN 0 ELSE -1)
          /\ data' = data /\ mem' = mem /\ bs' = bs]_vars

C7_Witness ==
    last.op = "commit" /\ bs.read_only # 0 /\ bs.alloc = "live"

\* C8 as claimed: bdrv_commit on a handle with no bitmap returns something
\* other than the 0 of a completed commit and changes nothing.
C8_NoOverlayFails ==
    [][(last'.op = "commit" /\ bs.cow_bitmap = NULL) =>
          /\ last'.ret # 0
          /\ bs' = bs /\ data' = data /\ mem' = mem /\ fdt' = fdt
          /\ map' = map]_vars

\* C8 amended: bdrv_commit on a handle with no bitmap returns 0, the value of
\* a completed commit, and changes neither the handle nor any file.
C8_NoOverlayNoOp ==
    [][(last'.op = "commit" /\ bs.cow_bitmap = NULL) =>
          /\ last'.ret = 0
          /\ bs' = bs /\ data' = data /\ mem' = mem /\ fdt' = fdt
          /\ map' = map]_vars

C8_Witness ==
    /\ last.op = "commit" /\ bs.cow_bitmap = NULL /\ bs.read_only = 0
    /\ bs.alloc = "live" /\ last.ret = 0

\* The mtime a COW header records: its 4 bytes read in network byte order.
RecordedMtime(bytes) ==
    bytes[1] * 16777216 + bytes[2] * 65536 + bytes[3] * 256 + bytes[4]
NamesBacking ==
    env.exists /\ env.nbytes >= sizeof_cow_header /\ env.magic = "OOOM"
    /\ env.backing_file # ""

\* C9: when the header of a COW container names a backing file whose mtime
\* differs from the one the header records, bdrv_open returns NULL and no
\* handle is left.
C9_Stale ==
    (last.op = "open" /\ NamesBacking
     /\ RecordedMtime(env.hdr_mtime) # env.st_mtime) =>
        last.ret = NULL /\ bs.alloc # "live"

C9_Witness ==
    /\ last.op = "open" /\ NamesBacking /\ env.base_exists
    /\ RecordedMtime(env.hdr_mtime) # env.st_mtime
    /\ last.ret = NULL
    /\ Len(fdt) = 1

\* C10: when bdrv_open returns NULL, every descriptor and mapping it acquired
\* has been released exactly once and the handle is gone.
C10_Released ==
    (last.op = "open" /\ last.ret = NULL) =>
        /\ bs.alloc # "live"
        /\ \A i \in DOMAIN fdt : ~fdt[i].open /\ fdt[i].closes = 1
        /\ map.kind # "none" => ~map.mapped /\ map.unmaps = 1

C10_Witness ==
    /\ last.op = "open" /\ last.ret = NULL
    /\ Len(fdt) = 2
    /\ bs.alloc = "freed"

\* C11: a handle bdrv_open returned that has an overlay and is not read-only
\* has an overlay descriptor that was opened read-write, whatever the kind of
\* the image, the snapshot flag and the mode the image could be opened in.
C11_OverlayWritable ==
    (bs.alloc = "live" /\ Overlay /\ bs.read_only = 0) =>
        /\ bs.cow_fd >= 0
        /\ FdOf(fdt, bs.cow_fd).mode = "rw"
        /\ FdOf(fdt, bs.cow_fd).open

C11_Witness ==
    /\ last.op = "open" /\ last.ret # NULL
    /\ Overlay /\ bs.read_only = 0
    /\ map.kind = "shared"
    /\ bs.fd >= 0 /\ FdOf(fdt, bs.fd).mode = "ro"

\* The block of file name that starts at byte offset off.
FileBlock(name, off) == data[name][BlockAt(off)]

\* C12: a bdrv_read of [a, a+n) inside [0, total_sectors) that returns 0 has
\* filled the buffer, sector by sector, from the overlay descriptor at
\* cow_sectors_offset + s*512 when bit s is set, from the backing descriptor at
\* s*512 when bit s is clear and there is a backing descriptor, and with zero
\* bytes when bit s is clear and there is none.
C12_Source ==
    (last.op = "read" /\ last.ret = 0
     /\ last.a >= 0 /\ last.a + last.n <= bs.total_sectors) =>
        /\ Len(last.buf) = last.n
        /\ \A i \in 1..last.n :
              LET s == last.a + i - 1
              IN  last.buf[i] =
                      IF Overlay /\ mem[s]
                      THEN FileBlock(OverlayName, bs.cow_sectors_offset + s * 512)
                      ELSE IF bs.fd >= 0
                      THEN FileBlock(BackingName, s * 512)
                      ELSE Zero

C12_Witness ==
    /\ last.op = "read" /\ last.ret = 0 /\ last.a = 0 /\ last.n = 2
    /\ Overlay /\ bs.fd < 0
    /\ ~mem[0] /\ mem[1]
    /\ last.buf = <<Zero, OldPattern>>

\* Some sector of the device is dirty.
SomeDirty == \E s \in 0..(bs.total_sectors - 1) : mem[s]

\* C13: on a handle that is not read-only and has an overlay with a dirty
\* sector, a bdrv_commit during which the environment makes no seek, read or
\* write fail returns 0, for a snapshot over a raw image and for a COW
\* container with and without a backing file.
C13_CommitSucceeds ==
    [][(last'.op = "commit" /\ bs.read_only = 0 /\ Overlay /\ SomeDirty
        /\ faults' = faults) =>
          last'.ret = 0]_vars

\* C14: for a present bitmap and nb_sectors > 0, is_changed returns the state
\* d of bit sector_num and a count k, 1 <= k <= nb_sectors, such that every
\* bit of [sector_num, sector_num + k) has state d and, when k < nb_sectors,
\* bit sector_num + k has the other state; for an absent bitmap it returns
\* not dirty and k = nb_sectors.
C14_Run ==
    bs.alloc = "live" =>
        \A s \in 0..MaxSectors, n \in 0..(MaxNb + 1) :
            LET r == is_changed(bs.cow_bitmap, mem, s, n)
                d == r.changed
                k == r.num_same
            IN  IF bs.cow_bitmap = NULL
                THEN ~d /\ k = n
                ELSE n > 0 =>
                       /\ d = mem[s]
                       /\ 1 <= k /\ k <= n
                       /\ \A j \in s..(s + k - 1) : mem[j] = d
                       /\ k < n => mem[s + k] # d

C14_Witness ==
    /\ last.op = "read" /\ last.a = 0 /\ last.n = 2 /\ last.ret = 0
    /\ Overlay /\ mem[0] /\ ~mem[1]
    /\ is_changed(bs.cow_bitmap, mem, 0, 2) = [changed |-> TRUE, num_same |-> 1]
    /\ is_changed(bs.cow_bitmap, mem, 1, 2) = [changed |-> FALSE, num_same |-> 2]

RECURSIVE Sum(_)
Sum(q) == IF q = << >> THEN 0 ELSE Head(q) + Sum(Tail(q))

\* The bdrv_read that has just returned, replayed with no fault injected.
LastRead == bdrv_read_pos(bs, data, mem, fdt, AnyPos(fdt), last.a, last.n, 0)

\* C15: bdrv_read returns for every bitmap and every nb_sectors >= 0; every
\* iteration of its loop consumes a run of at least one sector, and when the
\* call returns 0 the runs add up to nb_sectors and the sector cursor has
\* reached sector_num + nb_sectors.
C15_Terminates ==
    (last.op = "read" /\ last.a >= 0) =>
        /\ last.ret \in {0, -1}
        /\ \A i \in DOMAIN LastRead.runs : LastRead.runs[i] >= 1
        /\ Sum(LastRead.runs) <= last.n
        /\ last.ret = 0 => LastRead.ret = 0 /\ LastRead.buf = last.buf
        /\ LastRead.ret = 0 =>
              /\ Sum(LastRead.runs) = last.n
              /\ LastRead.sector_num = last.a + last.n
              /\ Len(LastRead.buf) = last.n

C15_Witness ==
    /\ last.op = "read" /\ last.ret = 0 /\ last.a = 0 /\ last.n = 2
    /\ LastRead.runs = <<1, 1>>
    /\ LastRead.sector_num = 2

\* C16: when bdrv_commit returns -1 because the read or the write of a sector
\* failed, the handle is as it was at entry, bitmap pointer included, and
\* every bit of the bitmap has the value it had, the bits of the sectors the
\* commit had already copied to the backing file too.
C16_FailureKeepsOverlay ==
    [][(last'.op = "commit" /\ last'.ret = -1 /\ Overlay /\ bs.read_only = 0) =>
          /\ bs'.cow_bitmap = bs.cow_bitmap
          /\ bs' = bs
          /\ mem' = mem]_vars

C16_Witness ==
    /\ last.op = "commit" /\ last.ret = -1 /\ Overlay /\ bs.read_only = 0
    /\ map.kind = "anon" /\ FdOf(fdt, bs.fd).mode = "rw"
    /\ mem[0] /\ mem[1]
    /\ data["img"][1] = "bb" /\ data["tmp"][1] = "bb"
    /\ data["img"][2] # data["tmp"][2]

\* What bdrv_read returns for sector s after the step, no read failing.
SectorViewNext(s) == bdrv_read(bs', data', mem', fdt', s, 1, 0)

\* C18: whatever bdrv_commit returns, a bdrv_read of any sector of
\* [0, total_sectors) through the handle gives after the commit what it gave
\* before it.
C18_ViewUnchanged ==
    [][last'.op = "commit" =>
          \A s \in 0..(bs.total_sectors - 1) :
              SectorViewNext(s) = SectorView(s)]_vars

C18_Witness ==
    /\ last.op = "commit" /\ last.ret = 0 /\ Overlay /\ bs.read_only = 0
    /\ map.kind = "anon"
    /\ mem[0] /\ ~mem[1]
    /\ data["tmp"][1] = "bb" /\ data["img"][1] = "bb"
    /\ SectorView(0) = [ret |-> 0, buf |-> <<"bb">>]
    /\ SectorView(1) = [ret |-> 0, buf |-> <<"bb">>]

\* ------------------------------------------------------------- SeekSpec
\* Lines 58-116: where bdrv_open leaves the descriptors it opened.  The image
\* is behind the header it read (line 72), or at its end when it is a raw
\* image (lseek64 SEEK_END, line 114); every other descriptor is at 0.
open_pos(e, f) ==
    [i \in DOMAIN f |->
        IF f[i].file # "img" THEN 0
        ELSE IF e.nbytes < sizeof_cow_header THEN e.nbytes
        ELSE IF e.magic = "OOOM" THEN sizeof_cow_header
        ELSE e.nbytes]

SeekOpen ==
    /\ bs.alloc = "none"
    /\ last.op = "none"
    /\ \E snapshot \in {0, 1}, fault \in OpenFaults, junk \in {NULL, Junk} :
         LET r == bdrv_open(env, snapshot, fault, junk)
         IN  /\ bs' = r.bs
             /\ fdt' = r.fdt
             /\ map' = r.map
             /\ mem' = r.mem
             /\ pos' = open_pos(env, r.fdt)
             /\ last' = [op |-> "open", a |-> snapshot, n |-> 0, buf |-> << >>,
                         ret |-> IF r.ok THEN 1 ELSE NULL]
             /\ UNCHANGED <<env, data, hist, faults>>

\* The arguments of a read: those of Ranges and, on a handle with no bitmap
\* (no bit is tested there), sector_num = -1.
SeekRanges ==
    Ranges \cup (IF bs.cow_bitmap = NULL
                 THEN {<<-1, n>> : n \in 1..MaxNb} ELSE {})

SeekRead ==
    /\ bs.alloc = "live"
    /\ last.op = "none"
    /\ \E r \in SeekRanges :
         LET res == bdrv_read_pos(bs, data, mem, fdt, pos, r[1], r[2], 0)
         IN  /\ last' = [op |-> "read", a |-> r[1], n |-> r[2],
                         buf |-> res.buf, ret |-> res.ret]
             /\ pos' = res.pos
    /\ UNCHANGED <<env, data, mem, bs, fdt, map, hist, faults>>

SeekNext == SeekOpen \/ SeekRead \/ Close \/ Resume

SeekSpec == Init /\ [][SeekNext]_vars

\* The descriptor and offset of the first run of the read that has just
\* returned, and whether lseek64 failed there.
FirstRun ==
    LET src == read_source(bs, is_changed(bs.cow_bitmap, mem, last.a,
                                          last.n).changed)
    IN  [fd |-> src.fd, offset |-> src.offset + last.a * 512]
SeekFailed == FirstRun.fd >= 0 /\ lseek64_fails(FirstRun.fd, FirstRun.offset)

\* C17: a bdrv_read in which the seek on the selected descriptor fails
\* returns -1; it does not return 0 with a buffer read from some other
\* position.
C17_SeekFailure ==
    (last.op = "read" /\ last.n > 0 /\ SeekFailed) => last.ret = -1

\* The bits of the sectors of the device.
DeviceBits == 0..(bs.total_sectors - 1)

\* C19: whatever sector_num and nb_sectors a call passes, every bit bdrv_read
\* tests and every bit bdrv_write sets has an index in [0, total_sectors).
C19_BitsInRange ==
    [][/\ (last'.op = "write" /\ last'.ret = 0) =>
              bits_set(bs, last'.a, last'.n) \subseteq DeviceBits
       /\ last'.op = "read" =>
              bits_tested(bs.cow_bitmap, last'.a, last'.n,
                          is_changed(bs.cow_bitmap, mem, last'.a,
                                     last'.n).num_same) \subseteq DeviceBits]_vars

\* C20: bdrv_close calls munmap only when bdrv_open established a mapping for
\* the handle: closing a handle with no overlay, or one whose bdrv_open failed
\* before it mapped anything, unmaps nothing.
C20_UnmapOnlyMapped ==
    (bs.alloc = "freed" /\ map.kind = "none") =>
        map.unmaps = 0 /\ map.stray = 0

====
